---- MODULE Spec2Model ----
(***************************************************************************)
(* Model of scripts/image_stats.py: the image-dimension statistics engine. *)
(*                                                                         *)
(* A run is main(): it parses the configuration and calls either           *)
(* process_images_parallel (exact mode) or process_images_memory_efficient *)
(* (bounded mode, --memory-efficient).  The parent process discovers the   *)
(* files, cuts them into batches, hands batches to pool workers that run   *)
(* process_batch, and folds the per-batch results into an accumulator.     *)
(*                                                                         *)
(* A Python int is unbounded: the dimensions, counts and sums are kept as   *)
(* integers, the sums of squares as limb sequences (least significant limb *)
(* first).  A Python float is an IEEE 754 double, kept as the record        *)
(* [sign, m, e] of its value sign * m * 2^e with m odd; every float         *)
(* operation rounds its exact result to 53 significant bits, ties to even.  *)
(***************************************************************************)
EXTENDS Integers, Sequences, FiniteSets, TLC

(***************************************************************************)
(* Bounds of the model.                                                    *)
(***************************************************************************)
\* Largest number of entries of a flat directory.
MaxFiles == 3
\* Largest number of entries of a tree (a root and one subdirectory), the
\* files that appear during the walk included.
MaxTreeFiles == 4
\* Largest --batch-size tried (the smallest is -1).
MaxBatchSize == 3
\* Largest --workers tried.
MaxWorkers == 2
\* np.random.random() is drawn from {0/Scale, ..., (Scale-1)/Scale}.
Scale == 4
\* A draw of np.random.randint(0, high) is tried at the values less than
\* MaxDraw away from the ends of its range and from the edge of the
\* reservoir (the last value that replaces a slot, the first that does not).
MaxDraw == 1

(***************************************************************************)
(* Constants of the program.                                               *)
(***************************************************************************)
\* reservoir_size = 10000: the capacity of the reservoirs.
reservoir_size == 10000

(***************************************************************************)
(* Values.                                                                 *)
(***************************************************************************)
\* float('inf') as the first argument of min: larger than every dimension.
inf == 2147483647

\* The (width, height) pairs Image.open(...).size can report: two wide
\* strips, whose sums of squares need 54 bits and more, and two screen sizes.
WideSizes == {<<80000000, 1>>, <<80000001, 2>>}
ScreenSizes == {<<640, 480>>, <<800, 600>>}
Sizes == WideSizes \cup ScreenSizes

\* None, as returned by get_image_size for a file it cannot read.
None == [raised |-> "", ok |-> FALSE, w |-> 0, h |-> 0]

\* The extensions the code takes for image files (lines 34 and 43).
image_extensions == {".jpg", ".jpeg", ".png", ".gif", ".bmp", ".tiff", ".webp"}

\* The exceptions of Image.open that get_image_size catches (line 26).
Caught == {"UnidentifiedImageError", "IOError", "OSError"}

\* What Image.open does with a file: it raises error, or (error = "") gives
\* an image of the size.  DecompressionBombError is Pillow's exception for an
\* image of more than twice MAX_IMAGE_PIXELS pixels; it derives from
\* Exception.
Opens ==
    {[error |-> "", size |-> s] : s \in Sizes}
    \cup {[error |-> e, size |-> <<0, 0>>] :
             e \in {"UnidentifiedImageError", "DecompressionBombError"}}

\* File names in lower case: stem is the part before the last dot, suffix
\* the last dot and what follows it.  The name ".jpg" has the stem "".
FileNames == [stem : {"", "a"}, suffix : {".jpg", ".txt"}]

\* An entry of the tree: the directory that holds the file (1 is the root, 2
\* its subdirectory), the file name and what Image.open does with the file.
\* An entry is kept as the tuple of these parts.
Entry(d, name, open) ==
    <<d, name.stem, name.suffix, open.error, open.size[1], open.size[2]>>

\* The directory, the file name and the outcome of Image.open of entry e.
dir_of(e) == e[1]
name_of(e) == [stem |-> e[2], suffix |-> e[3]]
open_of(e) == [error |-> e[4], size |-> <<e[5], e[6]>>]

Entries == {Entry(d, n, o) : d \in {1, 2}, n \in FileNames, o \in Opens}

\* Sequences over S of length at most n.
SeqUpTo(S, n) == UNION {[1..k -> S] : k \in 0..n}

\* A Python sequence value: zip(*...) yields tuples, list literals are lists.
PyTuple(items) == [kind |-> "tuple", items |-> items]
PyList(items) == [kind |-> "list", items |-> items]

(***************************************************************************)
(* Python built-ins on sequences of integers.                              *)
(***************************************************************************)
\* The recursions below work on the index range lo..hi of a sequence and
\* halve it, so that they are as deep as the logarithm of its length.
RECURSIVE sum_range(_, _, _)
sum_range(s, lo, hi) ==
    IF lo > hi THEN 0
    ELSE IF lo = hi THEN s[lo]
    ELSE sum_range(s, lo, (lo + hi) \div 2) + sum_range(s, (lo + hi) \div 2 + 1, hi)

sum(s) == sum_range(s, 1, Len(s))

RECURSIVE min_range(_, _, _)
min_range(s, lo, hi) ==
    IF lo = hi THEN s[lo]
    ELSE LET l == min_range(s, lo, (lo + hi) \div 2)
             r == min_range(s, (lo + hi) \div 2 + 1, hi)
         IN  IF l <= r THEN l ELSE r

RECURSIVE max_range(_, _, _)
max_range(s, lo, hi) ==
    IF lo = hi THEN s[lo]
    ELSE LET l == max_range(s, lo, (lo + hi) \div 2)
             r == max_range(s, (lo + hi) \div 2 + 1, hi)
         IN  IF l >= r THEN l ELSE r

\* min(s, default=d) and max(s, default=d)
min_default(s, d) == IF s = <<>> THEN d ELSE min_range(s, 1, Len(s))
max_default(s, d) == IF s = <<>> THEN d ELSE max_range(s, 1, Len(s))

\* sorted(s): the occurrences of the smallest value, then the rest sorted.
RECURSIVE sorted(_)
sorted(s) ==
    IF s = <<>> THEN <<>>
    ELSE LET m == min_default(s, 0)
         IN  SelectSeq(s, LAMBDA x : x = m) \o sorted(SelectSeq(s, LAMBDA x : x # m))

(***************************************************************************)
(* Python ints beyond the native integers: limb sequences.                 *)
(***************************************************************************)
\* A limb holds LimbBits bits.
LimbBits == 15
Limb == 32768

RECURSIVE Pow2(_)
Pow2(k) == IF k = 0 THEN 1 ELSE 2 * Pow2(k - 1)

\* The limbs of the integer n >= 0.
RECURSIVE big(_)
big(n) == IF n = 0 THEN <<>> ELSE <<n % Limb>> \o big(n \div Limb)

\* Without leading zero limbs.
RECURSIVE trim(_)
trim(a) ==
    IF a = <<>> THEN <<>>
    ELSE IF a[Len(a)] = 0 THEN trim(SubSeq(a, 1, Len(a) - 1))
    ELSE a

RECURSIVE big_add_carry(_, _, _)
big_add_carry(a, b, c) ==
    IF a = <<>> /\ b = <<>> THEN (IF c = 0 THEN <<>> ELSE <<c>>)
    ELSE LET x == IF a = <<>> THEN 0 ELSE Head(a)
             y == IF b = <<>> THEN 0 ELSE Head(b)
             t == x + y + c
         IN  <<t % Limb>>
             \o big_add_carry(IF a = <<>> THEN <<>> ELSE Tail(a),
                              IF b = <<>> THEN <<>> ELSE Tail(b), t \div Limb)

\* a + b
big_add(a, b) == big_add_carry(a, b, 0)

RECURSIVE big_sub_borrow(_, _, _)
big_sub_borrow(a, b, c) ==
    IF a = <<>> THEN <<>>
    ELSE LET y == IF b = <<>> THEN 0 ELSE Head(b)
             t == Head(a) - y - c
         IN  <<IF t < 0 THEN t + Limb ELSE t>>
             \o big_sub_borrow(Tail(a), IF b = <<>> THEN <<>> ELSE Tail(b),
                               IF t < 0 THEN 1 ELSE 0)

\* a - b for a >= b
big_sub(a, b) == trim(big_sub_borrow(a, b, 0))

\* -1, 0 or 1 as a < b, a = b or a > b
RECURSIVE big_cmp(_, _)
big_cmp(a, b) ==
    IF Len(a) # Len(b) THEN (IF Len(a) < Len(b) THEN -1 ELSE 1)
    ELSE IF a = <<>> THEN 0
    ELSE IF a[Len(a)] # b[Len(b)] THEN (IF a[Len(a)] < b[Len(b)] THEN -1 ELSE 1)
    ELSE big_cmp(SubSeq(a, 1, Len(a) - 1), SubSeq(b, 1, Len(b) - 1))

\* a * d + c for 0 <= d, c < Limb
RECURSIVE big_mul_small(_, _, _)
big_mul_small(a, d, c) ==
    IF a = <<>> THEN (IF c = 0 THEN <<>> ELSE <<c>>)
    ELSE LET t == Head(a) * d + c
         IN  <<t % Limb>> \o big_mul_small(Tail(a), d, t \div Limb)

\* a * b
RECURSIVE big_mul(_, _)
big_mul(a, b) ==
    IF b = <<>> THEN <<>>
    ELSE LET rest == big_mul(a, Tail(b))
         IN  big_add(trim(big_mul_small(a, Head(b), 0)),
                     IF rest = <<>> THEN <<>> ELSE <<0>> \o rest)

\* divmod(a, d) for 0 < d <= Limb; the quotient has the limbs of a.
RECURSIVE big_divmod_small(_, _)
big_divmod_small(a, d) ==
    IF a = <<>> THEN [q |-> <<>>, r |-> 0]
    ELSE LET hi == big_divmod_small(Tail(a), d)
             t == hi.r * Limb + Head(a)
         IN  [q |-> <<t \div d>> \o hi.q, r |-> t % d]

\* n.bit_length()
RECURSIVE bits(_)
bits(n) == IF n = 0 THEN 0 ELSE 1 + bits(n \div 2)

bit_length(a) == IF a = <<>> THEN 0 ELSE LimbBits * (Len(a) - 1) + bits(a[Len(a)])

\* a << k and a >> k
big_shl(a, k) ==
    IF a = <<>> THEN <<>>
    ELSE [i \in 1..(k \div LimbBits) |-> 0]
         \o (IF k % LimbBits = 0 THEN a ELSE big_mul_small(a, Pow2(k % LimbBits), 0))

big_shr(a, k) ==
    IF k \div LimbBits >= Len(a) THEN <<>>
    ELSE IF k % LimbBits = 0 THEN SubSeq(a, k \div LimbBits + 1, Len(a))
    ELSE trim(big_divmod_small(SubSeq(a, k \div LimbBits + 1, Len(a)),
                               Pow2(k % LimbBits)).q)

\* a % 2^k = 0 for an a of more than k bits
low_bits_zero(a, k) ==
    /\ \A i \in 1..(k \div LimbBits) : a[i] = 0
    /\ k % LimbBits = 0 \/ a[k \div LimbBits + 1] % Pow2(k % LimbBits) = 0

\* How many times 2 divides n > 0.
RECURSIVE trailing_zeros(_)
trailing_zeros(n) == IF n % 2 = 1 THEN 0 ELSE 1 + trailing_zeros(n \div 2)

\* sum(w*w for w in s)
RECURSIVE squares_range(_, _, _)
squares_range(s, lo, hi) ==
    IF lo > hi THEN <<>>
    ELSE IF lo = hi THEN big_mul(big(s[lo]), big(s[lo]))
    ELSE big_add(squares_range(s, lo, (lo + hi) \div 2),
                 squares_range(s, (lo + hi) \div 2 + 1, hi))

sum_of_squares(s) == squares_range(s, 1, Len(s))

(***************************************************************************)
(* Python floats.                                                          *)
(***************************************************************************)
\* Significant bits of a double.
MantissaBits == 53

\* 0.0
Zero == [sign |-> 0, m |-> <<>>, e |-> 0]

\* The float of value sign * m * 2^e, m made odd.
RECURSIVE float_of(_, _, _)
float_of(sign, m, e) ==
    IF m = <<>> THEN Zero
    ELSE IF Head(m) = 0 THEN float_of(sign, Tail(m), e + LimbBits)
    ELSE [sign |-> sign, m |-> big_shr(m, trailing_zeros(Head(m))),
          e |-> e + trailing_zeros(Head(m))]

\* The float nearest to sign * m * 2^e: MantissaBits significant bits, ties
\* to the even mantissa.  k bits are dropped: half a unit is added and the
\* sum cut; when the sum has no bit set below the cut, m was halfway between
\* two floats, and an odd result is the wrong one of the two.
float(sign, m, e) ==
    LET k == bit_length(m) - MantissaBits
        t == big_add(m, big_shl(<<1>>, k - 1))
        q == big_shr(t, k)
    IN  IF k <= 0 THEN float_of(sign, m, e)
        ELSE float_of(sign,
                      IF low_bits_zero(t, k) /\ Head(q) % 2 = 1
                      THEN big_sub(q, <<1>>) ELSE q,
                      e + k)

\* The float a / b of the int a >= 0 (limbs) and the int 0 < b <= Limb: a is
\* shifted left by s limbs, to six limbs at least, and divided by b; the
\* quotient gets one more bit, which says whether the division left a
\* remainder, and is rounded.  An int of at most MantissaBits bits is its
\* own float.
Div(a, b) ==
    IF b = 1 /\ bit_length(a) <= MantissaBits THEN float_of(1, a, 0)
    ELSE LET s == IF Len(a) >= 6 THEN 0 ELSE 6 - Len(a)
             dm == big_divmod_small([i \in 1..s |-> 0] \o a, b)
         IN  float(1, big_mul_small(trim(dm.q), 2, IF dm.r = 0 THEN 0 ELSE 1),
                   -(s * LimbBits + 1))

\* x - y
float_sub(x, y) ==
    LET e == IF x.e <= y.e THEN x.e ELSE y.e
        X == big_shl(x.m, x.e - e)
        Y == big_shl(y.m, y.e - e)
        c == big_cmp(X, Y)
    IN  IF y.sign = 0 THEN x
        ELSE IF x.sign = 0 THEN [y EXCEPT !.sign = -y.sign]
        ELSE IF x.sign # y.sign THEN float(x.sign, big_add(X, Y), e)
        ELSE IF c = 0 THEN Zero
        ELSE IF c > 0 THEN float(x.sign, big_sub(X, Y), e)
        ELSE float(-x.sign, big_sub(Y, X), e)

\* x ** 2, which is C's pow(x, 2.0): accurate to a little more than half a
\* unit in the last place, not correctly rounded.  The values it can have:
\* the float nearest to the exact square, and also the float on the other
\* side when the exact square is within 1/64 of a unit of the midpoint
\* between the two.
float_pow2(x) ==
    LET m == big_mul(x.m, x.m)
        k == bit_length(m) - MantissaBits
        q == big_shr(m, k)
        rest == big_sub(m, big_shl(q, k))
        half == big_shl(<<1>>, k - 1)
        off == IF big_cmp(rest, half) >= 0 THEN big_sub(rest, half)
               ELSE big_sub(half, rest)
    IN  IF k <= 0 THEN {float_of(x.sign * x.sign, m, 2 * x.e)}
        ELSE IF big_cmp(big_mul_small(off, 32, 0), half) <= 0
        THEN {float_of(1, q, 2 * x.e + k), float_of(1, big_add(q, <<1>>), 2 * x.e + k)}
        ELSE {float(1, m, 2 * x.e)}

\* np.median(s) for non-empty s: the middle value of the sorted data, or the
\* mean of the two middle values.
median(s) ==
    LET t == sorted(s)
        n == Len(t)
    IN  IF n % 2 = 1 THEN Div(big(t[(n + 1) \div 2]), 1)
        ELSE Div(big(t[n \div 2] + t[n \div 2 + 1]), 2)

(***************************************************************************)
(* State.                                                                  *)
(***************************************************************************)
VARIABLES
    directory,      \* the tree at args.directory: [exists, ndirs, entries]
    args,           \* argparse namespace: memory_efficient, batch_size, workers, sample_rate
    pc,             \* where the parent process is
    listed,         \* how many directories os.walk has listed
    all_files,      \* the image paths of the directories listed (a path is an entry's index)
    path_i,         \* bounded mode: how many of them find_image_files has yielded
    batch,          \* bounded mode: the batch being filled
    batches,        \* the batches handed to the pool so far, in order
    taskq,          \* how many of them workers have taken
    worker,         \* worker[w]: the batch worker w is probing, 0 when idle
    ready,          \* ready[k]: the result list of batch k, once a worker finished it
    consumed,       \* how many batch results the parent has received
    stats,          \* exact mode: the stats dict
    acc,            \* bounded mode: the tracking variables and the reservoirs
    final_stats,    \* what the processing function returned
    raised,         \* the exception that ended the run, "" if none
    warned,         \* "No valid images were processed." was logged
    output_written, \* main wrote args.output
    walked,         \* history: os.walk was started
    late,           \* history: how many files appeared in the tree during the walk
    folded,         \* history: the (width, height) pairs folded so far, in order
    offers          \* history: the reservoir offers of the fold just made

vars == <<directory, args, pc, listed, all_files, path_i, batch, batches, taskq,
          worker, ready, consumed, stats, acc, final_stats, raised, warned,
          output_written, walked, late, folded, offers>>

(***************************************************************************)
(* get_image_size, process_batch, find_image_files.                        *)
(***************************************************************************)
\* get_image_size(img_path): img.size, or None after a caught
\* UnidentifiedImageError / IOError / OSError; any other exception of
\* Image.open leaves the function (raised).
get_image_size(img_path) ==
    LET o == open_of(directory.entries[img_path])
    IN  IF o.error = ""
        THEN [raised |-> "", ok |-> TRUE, w |-> o.size[1], h |-> o.size[2]]
        ELSE IF o.error \in Caught THEN None
        ELSE [raised |-> o.error, ok |-> FALSE, w |-> 0, h |-> 0]

\* file_path.lower().endswith(('.jpg', ..., '.webp'))
has_image_extension(file_path) ==
    name_of(directory.entries[file_path]).suffix \in image_extensions

\* os.path.splitext(file)[1].lower(): a name that starts with its only dot
\* has no extension.
splitext_ext(name) == IF name.stem = "" THEN "" ELSE name.suffix

\* Lines 34-38, one pass of the loop of process_batch: None for a path that
\* is not probed.
probe(file_path) ==
    IF has_image_extension(file_path) THEN get_image_size(file_path) ELSE None

\* The passes for the lo-th to the hi-th path of the batch: the sizes they
\* append to results, or the exception that left get_image_size (raised),
\* after which no pass follows.
RECURSIVE process_range(_, _, _)
process_range(file_batch, lo, hi) ==
    IF lo > hi THEN [raised |-> "", results |-> <<>>]
    ELSE IF lo = hi
    THEN LET size == probe(file_batch[lo])
         IN  [raised |-> size.raised,
              results |-> IF size.ok THEN <<<<size.w, size.h>>>> ELSE <<>>]
    ELSE LET first == process_range(file_batch, lo, (lo + hi) \div 2)
             rest == process_range(file_batch, (lo + hi) \div 2 + 1, hi)
         IN  IF first.raised # "" THEN [raised |-> first.raised, results |-> <<>>]
             ELSE IF rest.raised # "" THEN [raised |-> rest.raised, results |-> <<>>]
             ELSE [raised |-> "", results |-> first.results \o rest.results]

\* process_batch(file_batch): the sizes of the files of the batch that could
\* be measured, or the exception that left get_image_size (raised).
process_batch(file_batch) == process_range(file_batch, 1, Len(file_batch))

\* Lines 45-49 for one directory of the tree: os.walk lists directory d, and
\* find_image_files yields those of its files whose extension is an image
\* extension.  os.walk of a directory that does not exist yields nothing.
walk_files(dir, d) ==
    IF dir.exists
    THEN SelectSeq([i \in 1..Len(dir.entries) |-> i],
                   LAMBDA i : /\ dir_of(dir.entries[i]) = d
                              /\ splitext_ext(name_of(dir.entries[i])) \in image_extensions)
    ELSE <<>>

\* The paths os.walk yields from directory d on, the root first.
RECURSIVE image_paths(_, _)
image_paths(dir, d) ==
    IF d > dir.ndirs THEN <<>> ELSE walk_files(dir, d) \o image_paths(dir, d + 1)

\* list(find_image_files(directory)): the generator run to its end over a
\* tree that does not change meanwhile.
find_image_files(dir) == image_paths(dir, 1)

\* widths, heights = zip(*batch_results)
zip_widths(batch_results) ==
    PyTuple([i \in 1..Len(batch_results) |-> batch_results[i][1]])
zip_heights(batch_results) ==
    PyTuple([i \in 1..Len(batch_results) |-> batch_results[i][2]])

(***************************************************************************)
(* Batches of process_images_parallel.                                     *)
(***************************************************************************)
Min(a, b) == IF a <= b THEN a ELSE b
Max(a, b) == IF a >= b THEN a ELSE b

\* [all_files[i:i + batch_size] for i in range(0, len(all_files), batch_size)]
\* for batch_size /= 0; range with a negative step from 0 is empty.
make_batches(files, batch_size) ==
    IF batch_size < 0 THEN <<>>
    ELSE LET n == Len(files)
             nb == (n + batch_size - 1) \div batch_size
         IN  [k \in 1..nb |->
                 SubSeq(files, (k - 1) * batch_size + 1, Min(k * batch_size, n))]

(***************************************************************************)
(* calculate_running_stats.                                                *)
(***************************************************************************)
\* stats = {}
EmptyDict ==
    [filled |-> FALSE, width_sum |-> 0, height_sum |-> 0,
     width_squared_sum |-> <<>>, height_squared_sum |-> <<>>, count |-> 0,
     min_width |-> 0, max_width |-> 0, min_height |-> 0, max_height |-> 0,
     widths |-> PyTuple(<<>>), heights |-> PyTuple(<<>>)]

\* The dict after lines 71-75, after lines 78-79 and after lines 80-81.
running_sums(d, ws, hs) ==
    [d EXCEPT !.width_sum = @ + sum(ws), !.height_sum = @ + sum(hs),
              !.width_squared_sum = big_add(@, sum_of_squares(ws)),
              !.height_squared_sum = big_add(@, sum_of_squares(hs)),
              !.count = @ + Len(ws)]

running_width_extrema(d, ws) ==
    [d EXCEPT !.min_width = Min(@, min_default(ws, @)),
              !.max_width = Max(@, max_default(ws, @))]

running_extrema(d, ws, hs) ==
    [running_width_extrema(d, ws)
       EXCEPT !.min_height = Min(@, min_default(hs, @)),
              !.max_height = Max(@, max_default(hs, @))]

\* calculate_running_stats(stats_dict, new_widths, new_heights): the dict as
\* the call leaves it, and the exception it raised ("" if it returned).
calculate_running_stats(stats_dict, new_widths, new_heights) ==
    LET ws == new_widths.items
        hs == new_heights.items
    IN  IF ~stats_dict.filled
        THEN [stats |->
                 [filled |-> TRUE, width_sum |-> sum(ws), height_sum |-> sum(hs),
                  width_squared_sum |-> sum_of_squares(ws),
                  height_squared_sum |-> sum_of_squares(hs),
                  count |-> Len(ws),
                  min_width |-> min_default(ws, inf),
                  max_width |-> max_default(ws, 0),
                  min_height |-> min_default(hs, inf),
                  max_height |-> max_default(hs, 0),
                  widths |-> new_widths, heights |-> new_heights],
              raised |-> ""]
        ELSE LET d1 == running_sums(stats_dict, ws, hs)
                 d2 == running_extrema(d1, ws, hs)
             IN  IF ws = <<>>
                 \* line 78, min(x) of a single int: 'int' object is not iterable
                 THEN [stats |-> d1, raised |-> "TypeError"]
                 ELSE IF hs = <<>>
                 \* line 80, the same
                 THEN [stats |-> running_width_extrema(d1, ws), raised |-> "TypeError"]
                 ELSE IF d2.widths.kind # "list"
                 \* 'tuple' object has no attribute 'extend'
                 THEN [stats |-> d2, raised |-> "AttributeError"]
                 ELSE IF d2.heights.kind # "list"
                 THEN [stats |-> [d2 EXCEPT !.widths.items = @ \o ws],
                       raised |-> "AttributeError"]
                 ELSE [stats |-> [d2 EXCEPT !.widths.items = @ \o ws,
                                            !.heights.items = @ \o hs],
                       raised |-> ""]

(***************************************************************************)
(* The tracking variables of process_images_memory_efficient.              *)
(***************************************************************************)
\* Lines 172-185.
InitAcc ==
    [count |-> 0, width_sum |-> 0, height_sum |-> 0,
     width_squared_sum |-> <<>>, height_squared_sum |-> <<>>,
     min_width |-> inf, max_width |-> 0, min_height |-> inf, max_height |-> 0,
     width_samples |-> <<>>, height_samples |-> <<>>]

\* if np.random.random() > sample_rate: continue   (both in units of 1/Scale)
sample_skips(draw, sample_rate) == draw > sample_rate

\* An update that takes the batch's extrema and forgets the running ones.
update_runningBatchExtrema(a, batch_widths, batch_heights) ==
    [a EXCEPT !.count = @ + Len(batch_widths),
              !.width_sum = @ + sum(batch_widths),
              !.height_sum = @ + sum(batch_heights),
              !.width_squared_sum = big_add(@, sum_of_squares(batch_widths)),
              !.height_squared_sum = big_add(@, sum_of_squares(batch_heights)),
              !.min_width = min_default(batch_widths, inf),
              !.max_width = max_default(batch_widths, 0),
              !.min_height = min_default(batch_heights, inf),
              !.max_height = max_default(batch_heights, 0)]

\* Lines 206-216 (and 242-252): the running statistics after a batch.
update_running(a, batch_widths, batch_heights) ==
    [a EXCEPT !.count = @ + Len(batch_widths),
              !.width_sum = @ + sum(batch_widths),
              !.height_sum = @ + sum(batch_heights),
              !.width_squared_sum = big_add(@, sum_of_squares(batch_widths)),
              !.height_squared_sum = big_add(@, sum_of_squares(batch_heights)),
              !.min_width = Min(@, min_default(batch_widths, inf)),
              !.max_width = Max(@, max_default(batch_widths, 0)),
              !.min_height = Min(@, min_default(batch_heights, inf)),
              !.max_height = Max(@, max_default(batch_heights, 0))]

\* The half-open range of np.random.randint(0, count) at line 225 (and 261):
\* count is the running count, which already includes the whole batch.
randint_high(a) == a.count

\* An offer that takes the reservoir for full once it holds one pair.
reservoir_offerFullAtOne(a, w, h, r) ==
    IF Len(a.width_samples) < 1
    THEN [a EXCEPT !.width_samples = Append(@, w), !.height_samples = Append(@, h)]
    ELSE IF r < reservoir_size
    THEN [a EXCEPT !.width_samples[r + 1] = w, !.height_samples[r + 1] = h]
    ELSE a

\* Lines 220-228 (and 256-264) for one pair: r is the value randint returns
\* when the reservoir is full.
reservoir_offer(a, w, h, r) ==
    IF Len(a.width_samples) < reservoir_size
    THEN [a EXCEPT !.width_samples = Append(@, w), !.height_samples = Append(@, h)]
    ELSE IF r < reservoir_size
    THEN [a EXCEPT !.width_samples[r + 1] = w, !.height_samples[r + 1] = h]
    ELSE a

\* What an offer saw: n counts the pairs offered so far, this one included;
\* full says whether the reservoir was full, so that a draw was made; high
\* is the exclusive upper end of the draw's range, r the value drawn.
offer_log(a, r, n) ==
    [n |-> n, full |-> ~(Len(a.width_samples) < reservoir_size),
     high |-> randint_high(a), r |-> r]

\* Lines 219-228 (and 255-264): the lo-th to the hi-th pair of the batch are
\* offered in order, rs[i] being the draw made for the i-th.  s holds the
\* tracking variables (acc) and what the offers made so far saw (offers);
\* offered pairs were offered before this batch.  (The test on first has the
\* first half of the offers evaluated before the second half is entered.)
RECURSIVE update_reservoir(_, _, _, _, _, _, _)
update_reservoir(s, batch_widths, batch_heights, rs, offered, lo, hi) ==
    IF lo > hi THEN s
    ELSE IF lo = hi
    THEN [acc |-> reservoir_offer(s.acc, batch_widths[lo], batch_heights[lo], rs[lo]),
          offers |-> Append(s.offers, offer_log(s.acc, rs[lo], offered + lo))]
    ELSE LET first == update_reservoir(s, batch_widths, batch_heights, rs, offered,
                                       lo, (lo + hi) \div 2)
         IN  IF Len(first.offers) > Len(s.offers)
             THEN update_reservoir(first, batch_widths, batch_heights, rs, offered,
                                   (lo + hi) \div 2 + 1, hi)
             ELSE s

\* Lines 203-228 (and 239-264): the fold of one non-empty batch result, as
\* the tracking variables it leaves (acc) and what its offers saw (offers).
fold_batch(a, batch_results, rs, offered) ==
    LET batch_widths == zip_widths(batch_results).items
        batch_heights == zip_heights(batch_results).items
    IN  update_reservoir([acc |-> update_running(a, batch_widths, batch_heights),
                          offers |-> <<>>],
                         batch_widths, batch_heights, rs, offered,
                         1, Len(batch_results))

\* The values tried for a draw of np.random.randint(0, high), which returns
\* any value of 0..(high - 1): those near 0, near high - 1 and on either
\* side of reservoir_size, the bound of the test of line 226.
DrawsTried(high) ==
    {r \in 0..(high - 1) :
        \/ r < MaxDraw
        \/ r >= high - MaxDraw
        \/ r >= reservoir_size - MaxDraw /\ r < reservoir_size + MaxDraw}

\* The draws a fold of batch_results into a can make: one value of
\* randint(0, count) for each pair that is offered to a full reservoir, which
\* the pairs after the first reservoir_size - len(width_samples) are (0
\* stands in where no draw is made).
Draws(a, batch_results) ==
    LET n == Len(batch_results)
        free == reservoir_size - Len(a.width_samples)
        high == randint_high(update_running(a, zip_widths(batch_results).items,
                                            zip_heights(batch_results).items))
    IN  {[i \in 1..n |-> IF i \in DOMAIN d THEN d[i] ELSE 0] :
            d \in [{i \in 1..n : i > free} -> DrawsTried(high)]}

(***************************************************************************)
(* Final statistics.                                                       *)
(***************************************************************************)
NoDim == [min |-> 0, max |-> 0, mean |-> Zero, median |-> Zero, variance |-> Zero]

\* returned is "pending" until the processing function returns, then "stats"
\* or "None".
NoStats(returned) ==
    [returned |-> returned, count |-> 0, width |-> NoDim, height |-> NoDim,
     sampled |-> FALSE]

\* (sq_sum / count) - mean_squared, mean_squared being mean ** 2: the value
\* np.sqrt is applied to.
variance(sq_sum, count, mean_squared) == float_sub(Div(sq_sum, count), mean_squared)

\* None where a float is expected.
NoneFloat == [sign |-> 0, m |-> <<>>, e |-> -1]

\* np.median(samples) if samples else None
median_or_None(samples) == IF samples = <<>> THEN NoneFloat ELSE median(samples)

\* Lines 117-155: final_stats of process_images_parallel, for count > 0 (the
\* dict has no 'sampled' key there; the record keeps the field FALSE).
\* mean_width_2 and mean_height_2 are the values of mean_width ** 2 and
\* mean_height ** 2.
final_stats_parallel(d, mean_width, mean_height, mean_width_2, mean_height_2) ==
    [returned |-> "stats", count |-> d.count,
     width |-> [min |-> d.min_width, max |-> d.max_width,
                mean |-> mean_width,
                median |-> median(d.widths.items),
                variance |-> variance(d.width_squared_sum, d.count, mean_width_2)],
     height |-> [min |-> d.min_height, max |-> d.max_height,
                 mean |-> mean_height,
                 median |-> median(d.heights.items),
                 variance |-> variance(d.height_squared_sum, d.count, mean_height_2)],
     sampled |-> FALSE]

\* Lines 267-301: final_stats of process_images_memory_efficient, for count > 0.
final_stats_memory_efficient(a, sample_rate, mean_width, mean_height, mean_width_2, mean_height_2) ==
    [returned |-> "stats", count |-> a.count,
     width |-> [min |-> a.min_width, max |-> a.max_width,
                mean |-> mean_width,
                median |-> median_or_None(a.width_samples),
                variance |-> variance(a.width_squared_sum, a.count, mean_width_2)],
     height |-> [min |-> a.min_height, max |-> a.max_height,
                 mean |-> mean_height,
                 median |-> median_or_None(a.height_samples),
                 variance |-> variance(a.height_squared_sum, a.count, mean_height_2)],
     sampled |-> sample_rate < Scale]

(***************************************************************************)
(* Initial state: main() has parsed its arguments.                         *)
(***************************************************************************)
\* The files of the flat directories tried: image files that Image.open
\* measures, rejects or fails on, and a file named ".jpg", which the walk
\* leaves out.
Files ==
    {e \in Entries : /\ dir_of(e) = 1
                     /\ name_of(e) = [stem |-> "a", suffix |-> ".jpg"]
                     /\ open_of(e).size \in WideSizes \cup {<<0, 0>>}}
    \cup {Entry(1, [stem |-> "", suffix |-> ".jpg"],
                 [error |-> "", size |-> <<80000000, 1>>])}

\* The files of the trees tried: readable images, of one size in the root
\* and of another in the subdirectory.
TreeFiles ==
    {Entry(1, [stem |-> "a", suffix |-> ".jpg"],
           [error |-> "", size |-> <<80000000, 1>>]),
     Entry(2, [stem |-> "a", suffix |-> ".jpg"],
           [error |-> "", size |-> <<80000001, 2>>])}

\* The i-th file of a large directory: the files that fill the reservoirs are
\* of one size, those that follow of another.
LargeFile(i) ==
    Entry(1, [stem |-> "a", suffix |-> ".jpg"],
          [error |-> "",
           size |-> IF i <= reservoir_size THEN <<640, 480>> ELSE <<800, 600>>])

\* The entries of the trees tried, the files of the root before those of the
\* subdirectory.
Trees ==
    {e \in SeqUpTo(TreeFiles, MaxTreeFiles) :
        \A i, j \in 1..Len(e) : i < j => dir_of(e[i]) <= dir_of(e[j])}

\* A directory that does not exist (os.walk tries its root and yields
\* nothing), the flat directories and the trees.
Directories ==
    {[exists |-> FALSE, ndirs |-> 1, entries |-> <<>>]}
    \cup {[exists |-> TRUE, ndirs |-> 1, entries |-> e] : e \in SeqUpTo(Files, MaxFiles)}
    \cup {[exists |-> TRUE, ndirs |-> 2, entries |-> e] : e \in Trees}

\* A flat directory of two more readable images than the reservoirs hold.
LargeDirectories ==
    {[exists |-> TRUE, ndirs |-> 1,
      entries |-> [i \in 1..(reservoir_size + 2) |-> LargeFile(i)]]}

\* --sample-rate takes effect in bounded mode only; exact mode keeps the
\* default.  A negative --batch-size is tried in exact mode, where it differs
\* from 0; bounded mode treats both alike.
\* --workers is tried with one worker and with MaxWorkers.
Args ==
    {a \in [memory_efficient : BOOLEAN, batch_size : (-1)..MaxBatchSize,
            workers : {1, MaxWorkers}, sample_rate : {Scale \div 2, Scale}] :
        IF a.memory_efficient THEN a.batch_size >= 0 ELSE a.sample_rate = Scale}

\* A large directory is run in bounded mode at sample_rate 1.0 with one
\* worker.  With batches of reservoir_size files the first batch fills the
\* reservoirs and the files that follow make the last batch; with batches of
\* one file less the last batch fills the last slot with its first pair and
\* offers the pairs that follow to full reservoirs.
LargeArgs ==
    [memory_efficient : {TRUE}, batch_size : {reservoir_size - 1, reservoir_size},
     workers : {1}, sample_rate : {Scale}]

Init ==
    /\ \/ directory \in Directories /\ args \in Args
       \/ directory \in LargeDirectories /\ args \in LargeArgs
    /\ pc = "main"
    /\ listed = 0
    /\ all_files = <<>>
    /\ path_i = 0
    /\ batch = <<>>
    /\ batches = <<>>
    /\ taskq = 0
    /\ worker = [w \in 1..MaxWorkers |-> 0]
    /\ ready = <<>>
    /\ consumed = 0
    /\ stats = EmptyDict
    /\ acc = InitAcc
    /\ final_stats = NoStats("pending")
    /\ raised = ""
    /\ warned = FALSE
    /\ output_written = FALSE
    /\ walked = FALSE
    /\ late = 0
    /\ folded = <<>>
    /\ offers = <<>>

(***************************************************************************)
(* The file system.                                                        *)
(***************************************************************************)
\* Another process creates a file in the tree while os.walk is under way:
\* the root has been listed, the subdirectory has not.  (A file created
\* before the walk is a file of the initial tree; one created after it is
\* never looked at.)
FileAppears ==
    /\ pc \in {"scan", "loop", "map"}
    /\ 0 < listed
    /\ listed < directory.ndirs
    /\ Len(directory.entries) < MaxTreeFiles
    /\ \E f \in TreeFiles : directory' = [directory EXCEPT !.entries = Append(@, f)]
    /\ late' = late + 1
    /\ UNCHANGED <<args, pc, listed, all_files, path_i, batch, batches, taskq, worker,
                   ready, consumed, stats, acc, final_stats, raised, warned,
                   output_written, walked, folded, offers>>

(***************************************************************************)
(* Pool workers (both modes).                                              *)
(***************************************************************************)
PoolOpen == pc \in {"imap", "map", "map_rest"}

\* An idle worker takes the next task of the pool's queue.
WorkerTake(w) ==
    /\ PoolOpen
    /\ w \in 1..args.workers
    /\ worker[w] = 0
    /\ taskq < Len(batches)
    /\ worker' = [worker EXCEPT ![w] = taskq + 1]
    /\ taskq' = taskq + 1
    /\ UNCHANGED <<directory, args, pc, listed, all_files, path_i, batch, batches,
                   ready, consumed, stats, acc, final_stats, raised, warned,
                   output_written, walked, late, folded, offers>>

\* A worker that shares the accumulator with the parent and folds its own
\* result into it.
WorkerFinishFolding(w) ==
    /\ PoolOpen
    /\ worker[w] # 0
    /\ ready' = ready @@ (worker[w] :> process_batch(batches[worker[w]]))
    /\ worker' = [worker EXCEPT ![w] = 0]
    /\ stats' = [stats EXCEPT !.count = @ + Len(process_batch(batches[worker[w]]).results)]
    /\ acc' = [acc EXCEPT !.count = @ + Len(process_batch(batches[worker[w]]).results)]
    /\ UNCHANGED <<directory, args, pc, listed, all_files, path_i, batch, batches,
                   taskq, consumed, final_stats, raised, warned,
                   output_written, walked, late, folded, offers>>

\* The worker runs process_batch on its batch and sends the result list, or
\* the exception that process_batch raised, back.
WorkerFinish(w) ==
    /\ PoolOpen
    /\ worker[w] # 0
    /\ ready' = ready @@ (worker[w] :> process_batch(batches[worker[w]]))
    /\ worker' = [worker EXCEPT ![w] = 0]
    /\ UNCHANGED <<directory, args, pc, listed, all_files, path_i, batch, batches,
                   taskq, consumed, stats, acc, final_stats, raised, warned,
                   output_written, walked, late, folded, offers>>

(***************************************************************************)
(* process_images_parallel, as called by main.                             *)
(***************************************************************************)
\* Lines 91-95: the function is entered.  The generator of line 98 has not
\* run yet.
ExactStart ==
    /\ pc = "main"
    /\ ~args.memory_efficient
    /\ pc' = "scan"
    /\ UNCHANGED <<directory, args, listed, all_files, path_i, batch, batches, taskq,
                   worker, ready, consumed, stats, acc, final_stats, raised, warned,
                   output_written, walked, late, folded, offers>>

\* Line 98, list() driving the generator: os.walk lists the next directory
\* (lines 45-49) and list() takes the image paths it yields.
ExactWalk ==
    /\ pc = "scan"
    /\ listed < directory.ndirs
    /\ listed' = listed + 1
    /\ all_files' = all_files \o walk_files(directory, listed + 1)
    /\ walked' = TRUE
    /\ UNCHANGED <<directory, args, pc, path_i, batch, batches, taskq, worker, ready,
                   consumed, stats, acc, final_stats, raised, warned,
                   output_written, late, folded, offers>>

\* Lines 98-110: the generator is exhausted and list() returns; the batches,
\* the pool.  range() raises ValueError for a step of 0.
ExactBatches ==
    /\ pc = "scan"
    /\ listed = directory.ndirs
    /\ IF args.batch_size = 0
       THEN /\ raised' = "ValueError"
            /\ pc' = "raised"
            /\ UNCHANGED batches
       ELSE /\ batches' = make_batches(all_files, args.batch_size)
            /\ pc' = "imap"
            /\ UNCHANGED raised
    /\ UNCHANGED <<directory, args, listed, all_files, path_i, batch, taskq, worker,
                   ready, consumed, stats, acc, final_stats, warned, output_written,
                   walked, late, folded, offers>>

\* The unordered variant (pool.imap_unordered): the parent folds whichever
\* result is ready, whatever its batch.
ExactFoldUnordered ==
    /\ pc = "imap"
    /\ consumed < Len(batches)
    /\ \E k \in DOMAIN ready :
          LET batch_results == ready[k].results
              r == calculate_running_stats(stats, zip_widths(batch_results),
                                           zip_heights(batch_results))
          IN  /\ k > consumed
              /\ IF ready[k].raised # ""
                 THEN /\ raised' = ready[k].raised
                      /\ pc' = "raised"
                      /\ worker' = [w \in 1..MaxWorkers |-> 0]
                      /\ UNCHANGED <<consumed, stats, folded>>
                 ELSE /\ consumed' = consumed + 1
                      /\ IF batch_results = <<>>
                         THEN UNCHANGED <<stats, raised, pc, worker, folded>>
                         ELSE /\ stats' = r.stats
                              /\ raised' = r.raised
                              /\ IF r.raised = ""
                                 THEN /\ folded' = folded \o batch_results
                                      /\ UNCHANGED <<pc, worker>>
                                 ELSE /\ pc' = "raised"
                                      /\ worker' = [w \in 1..MaxWorkers |-> 0]
                                      /\ UNCHANGED folded
    /\ UNCHANGED <<directory, args, listed, all_files, path_i, batch, batches, taskq,
                   ready, acc, final_stats, warned, output_written, walked, late,
                   offers>>

\* Lines 111-114: pool.imap yields the next batch's result, in batch order,
\* and the parent folds it; when the batch's worker raised, pool.imap raises
\* that exception in the parent instead.  An exception leaves the with block,
\* which terminates the pool.
ExactFold ==
    /\ pc = "imap"
    /\ consumed < Len(batches)
    /\ (consumed + 1) \in DOMAIN ready
    /\ LET batch_results == ready[consumed + 1].results
           r == calculate_running_stats(stats, zip_widths(batch_results),
                                        zip_heights(batch_results))
       IN  IF ready[consumed + 1].raised # ""
           THEN /\ raised' = ready[consumed + 1].raised
                /\ pc' = "raised"
                /\ worker' = [w \in 1..MaxWorkers |-> 0]
                /\ UNCHANGED <<consumed, stats, folded>>
           ELSE /\ consumed' = consumed + 1
                /\ IF batch_results = <<>>
                   THEN UNCHANGED <<stats, raised, pc, worker, folded>>
                   ELSE /\ stats' = r.stats
                        /\ raised' = r.raised
                        /\ IF r.raised = ""
                           THEN /\ folded' = folded \o batch_results
                                /\ UNCHANGED <<pc, worker>>
                           ELSE /\ pc' = "raised"
                                /\ worker' = [w \in 1..MaxWorkers |-> 0]
                                /\ UNCHANGED folded
    /\ UNCHANGED <<directory, args, listed, all_files, path_i, batch, batches, taskq,
                   ready, acc, final_stats, warned, output_written, walked, late,
                   offers>>

\* del stats['widths'], del stats['heights']
Deleted == [kind |-> "deleted", items |-> <<>>]

\* Lines 116-158, then main's lines 334-345: stats['count'] raises KeyError
\* on the empty dict.
ExactFinalize ==
    /\ pc = "imap"
    /\ consumed = Len(batches)
    /\ IF ~stats.filled
       THEN /\ raised' = "KeyError"
            /\ pc' = "raised"
            /\ UNCHANGED <<stats, final_stats, warned, output_written>>
       ELSE /\ pc' = "done"
            /\ UNCHANGED raised
            /\ IF stats.count > 0
               THEN /\ LET mean_width == Div(big(stats.width_sum), stats.count)
                            mean_height == Div(big(stats.height_sum), stats.count)
                        IN  \E mean_width_2 \in float_pow2(mean_width),
                               mean_height_2 \in float_pow2(mean_height) :
                               final_stats' = final_stats_parallel(
                                                  stats, mean_width, mean_height,
                                                  mean_width_2, mean_height_2)
                    /\ stats' = [stats EXCEPT !.widths = Deleted, !.heights = Deleted]
                    /\ output_written' = TRUE
                    /\ UNCHANGED warned
               ELSE /\ final_stats' = NoStats("None")
                    /\ warned' = TRUE
                    /\ UNCHANGED <<stats, output_written>>
    /\ UNCHANGED <<directory, args, listed, all_files, path_i, batch, batches, taskq,
                   worker, ready, consumed, acc, walked, late, folded, offers>>

(***************************************************************************)
(* process_images_memory_efficient, as called by main.                     *)
(***************************************************************************)
\* Lines 165-188: the tracking variables.  The generator of line 190 has not
\* run yet.
BoundedStart ==
    /\ pc = "main"
    /\ args.memory_efficient
    /\ acc' = InitAcc
    /\ pc' = "loop"
    /\ UNCHANGED <<directory, args, listed, all_files, path_i, batch, batches, taskq,
                   worker, ready, consumed, stats, final_stats, raised, warned,
                   output_written, walked, late, folded, offers>>

\* Line 190, the generator resumed with no file of a listed directory left
\* to yield: os.walk lists the next directory (lines 45-49).
BoundedWalk ==
    /\ pc = "loop"
    /\ path_i = Len(all_files)
    /\ listed < directory.ndirs
    /\ listed' = listed + 1
    /\ all_files' = all_files \o walk_files(directory, listed + 1)
    /\ walked' = TRUE
    /\ offers' = <<>>
    /\ UNCHANGED <<directory, args, pc, path_i, batch, batches, taskq, worker, ready,
                   consumed, stats, acc, final_stats, raised, warned,
                   output_written, late, folded>>

\* What lines 192-193 can decide for one path: FALSE when a value of
\* np.random.random() makes the loop skip it, TRUE when one makes it keep it.
Kept(sample_rate) == {~sample_skips(draw, sample_rate) : draw \in 0..(Scale - 1)}

\* Lines 190-200: the passes of the loop over the files of the directories
\* listed, up to the pass that fills the batch and calls pool.map, or up to
\* the last of these files.  The parent runs them alone: the pool of the
\* batch before is closed.  keeps[p] is what the p-th path's pass decides,
\* kept the positions of the paths kept, need the number of paths that fills
\* the batch.
BoundedNext ==
    /\ pc = "loop"
    /\ path_i < Len(all_files)
    /\ \E keeps \in [(path_i + 1)..Len(all_files) -> Kept(args.sample_rate)] :
          \E kept \in {SelectSeq([j \in 1..(Len(all_files) - path_i) |-> path_i + j],
                                 LAMBDA p : keeps[p])} :
             LET need == Max(1, args.batch_size - Len(batch))
             IN  IF Len(kept) >= need
                 THEN /\ path_i' = kept[need]
                      /\ batch' = batch \o [k \in 1..need |-> all_files[kept[k]]]
                      /\ batches' = Append(batches, batch')
                      /\ pc' = "map"
                 ELSE /\ path_i' = Len(all_files)
                      /\ batch' = batch \o [k \in 1..Len(kept) |-> all_files[kept[k]]]
                      /\ UNCHANGED <<batches, pc>>
    /\ offers' = <<>>
    /\ UNCHANGED <<directory, args, listed, all_files, taskq, worker, ready, consumed,
                   stats, acc, final_stats, raised, warned, output_written, walked,
                   late, folded>>

\* Lines 232-236: the generator is exhausted and the loop over; a batch that
\* is not empty is mapped.
BoundedRest ==
    /\ pc = "loop"
    /\ path_i = Len(all_files)
    /\ listed = directory.ndirs
    /\ IF batch # <<>>
       THEN /\ batches' = Append(batches, batch)
            /\ pc' = "map_rest"
       ELSE /\ pc' = "final"
            /\ UNCHANGED batches
    /\ offers' = <<>>
    /\ UNCHANGED <<directory, args, listed, all_files, path_i, batch, taskq, worker,
                   ready, consumed, stats, acc, final_stats, raised, warned,
                   output_written, walked, late, folded>>

\* Lines 200-230 (and 236-264): pool.map returns the batch's result and the
\* parent folds it; when the worker raised, pool.map raises that exception
\* in the parent instead.
BoundedFold ==
    /\ pc \in {"map", "map_rest"}
    /\ consumed < Len(batches)
    /\ (consumed + 1) \in DOMAIN ready
    /\ IF ready[consumed + 1].raised # ""
       THEN /\ raised' = ready[consumed + 1].raised
            /\ pc' = "raised"
            /\ UNCHANGED <<consumed, acc, folded, offers, batch>>
       ELSE /\ consumed' = consumed + 1
            /\ UNCHANGED raised
            /\ IF ready[consumed + 1].results = <<>>
               THEN UNCHANGED <<acc, folded, offers>>
               ELSE \E rs \in Draws(acc, ready[consumed + 1].results) :
                       \E s \in {fold_batch(acc, ready[consumed + 1].results, rs,
                                            Len(folded))} :
                          /\ acc' = s.acc
                          /\ offers' = s.offers
                          /\ folded' = folded \o ready[consumed + 1].results
            /\ IF pc = "map"
               THEN /\ batch' = <<>>
                    /\ pc' = "loop"
               ELSE /\ pc' = "final"
                    /\ UNCHANGED batch
    /\ UNCHANGED <<directory, args, listed, all_files, path_i, batches, taskq, worker,
                   ready, stats, final_stats, warned, output_written, walked, late>>

\* Lines 266-304, then main's lines 334-345.
BoundedFinalize ==
    /\ pc = "final"
    /\ pc' = "done"
    /\ IF acc.count > 0
       THEN /\ LET mean_width == Div(big(acc.width_sum), acc.count)
                    mean_height == Div(big(acc.height_sum), acc.count)
                IN  \E mean_width_2 \in float_pow2(mean_width),
                       mean_height_2 \in float_pow2(mean_height) :
                       final_stats' = final_stats_memory_efficient(
                                          acc, args.sample_rate, mean_width, mean_height,
                                          mean_width_2, mean_height_2)
            /\ output_written' = TRUE
            /\ UNCHANGED warned
       ELSE /\ final_stats' = NoStats("None")
            /\ warned' = TRUE
            /\ UNCHANGED output_written
    /\ offers' = <<>>
    /\ UNCHANGED <<directory, args, listed, all_files, path_i, batch, batches, taskq,
                   worker, ready, consumed, stats, acc, raised, walked, late, folded>>

Next ==
    \/ ExactStart
    \/ ExactWalk
    \/ ExactBatches
    \/ ExactFold
    \/ ExactFinalize
    \/ BoundedStart
    \/ BoundedWalk
    \/ BoundedNext
    \/ BoundedRest
    \/ BoundedFold
    \/ BoundedFinalize
    \/ FileAppears
    \/ \E w \in 1..MaxWorkers : WorkerTake(w)
    \/ \E w \in 1..MaxWorkers : WorkerFinish(w)

Spec == Init /\ [][Next]_vars

(***************************************************************************)
(* process_images_parallel as a function of its inputs: pool.imap yields   *)
(* the batch results in batch order, so the outcome does not depend on the *)
(* workers' schedule.                                                      *)
(***************************************************************************)
\* Lines 111-114 over the batch results from the i-th on: an empty result is
\* skipped, an exception (of the batch's worker, or of the fold) ends the loop.
RECURSIVE fold_results(_, _, _)
fold_results(d, results, i) ==
    IF i > Len(results) THEN [stats |-> d, raised |-> ""]
    ELSE IF results[i].raised # "" THEN [stats |-> d, raised |-> results[i].raised]
    ELSE IF results[i].results = <<>> THEN fold_results(d, results, i + 1)
    ELSE LET r == calculate_running_stats(d, zip_widths(results[i].results),
                                          zip_heights(results[i].results))
         IN  IF r.raised # "" THEN r ELSE fold_results(r.stats, results, i + 1)

\* Lines 97-158: the exception raised ("" if none), the dict, and whether a
\* result ("stats") or None was returned.
process_images_parallel(dir, batch_size) ==
    IF batch_size = 0
    THEN [raised |-> "ValueError", stats |-> EmptyDict, returned |-> "pending"]
    ELSE LET bs == make_batches(find_image_files(dir), batch_size)
             r == fold_results(EmptyDict, [k \in 1..Len(bs) |-> process_batch(bs[k])], 1)
         IN  IF r.raised # ""
             THEN [raised |-> r.raised, stats |-> r.stats, returned |-> "pending"]
             ELSE IF ~r.stats.filled
             THEN [raised |-> "KeyError", stats |-> r.stats, returned |-> "pending"]
             ELSE IF r.stats.count > 0
             THEN [raised |-> "",
                   stats |-> [r.stats EXCEPT !.widths = Deleted, !.heights = Deleted],
                   returned |-> "stats"]
             ELSE [raised |-> "", stats |-> r.stats, returned |-> "None"]

(***************************************************************************)
(* Reference notions the claims are stated with.                           *)
(***************************************************************************)
Terminated == pc \in {"done", "raised"}

\* get_image_size returns a size for the path.
Measurable(path) == get_image_size(path).ok

\* The sizes of the measurable paths of a path sequence, in path order.
MeasuredSizes(paths) ==
    LET measurable == SelectSeq(paths, Measurable)
    IN  [p \in 1..Len(measurable) |->
            <<get_image_size(measurable[p]).w, get_image_size(measurable[p]).h>>]

\* The number of discovered files that get_image_size measures.
NumMeasurable == Cardinality({i \in 1..Len(all_files) : Measurable(all_files[i])})

\* The paths of the first k batches, in order.
RECURSIVE flatten(_, _)
flatten(bs, k) == IF k = 0 THEN <<>> ELSE flatten(bs, k - 1) \o bs[k]

Widths(pairs) == [i \in 1..Len(pairs) |-> pairs[i][1]]
Heights(pairs) == [i \in 1..Len(pairs) |-> pairs[i][2]]

\* The k-th smallest value of s: fewer than k values are below it and at
\* least k values are not above it.
KthSmallest(s, k) ==
    CHOOSE v \in {s[i] : i \in 1..Len(s)} :
        /\ Cardinality({i \in 1..Len(s) : s[i] < v}) < k
        /\ Cardinality({i \in 1..Len(s) : s[i] <= v}) >= k

\* The median of all values taken at once.
DirectMedian(s) ==
    LET n == Len(s)
    IN  IF n % 2 = 1 THEN Div(big(KthSmallest(s, (n + 1) \div 2)), 1)
        ELSE Div(big(KthSmallest(s, n \div 2) + KthSmallest(s, n \div 2 + 1)), 2)

\* The values of s and the number of times v occurs in s.
Values(s) == {s[i] : i \in 1..Len(s)}
Occurrences(s, v) == Cardinality({i \in 1..Len(s) : s[i] = v})

\* The total of the values vs of s, each counted as often as it occurs.
RECURSIVE TotalOver(_, _)
TotalOver(s, vs) ==
    IF vs = {} THEN 0
    ELSE LET v == CHOOSE x \in vs : TRUE
         IN  v * Occurrences(s, v) + TotalOver(s, vs \ {v})

TotalOf(s) == TotalOver(s, Values(s))

\* The total of the squares of the values vs of s, counted likewise.
RECURSIVE SquaresOver(_, _)
SquaresOver(s, vs) ==
    IF vs = {} THEN <<>>
    ELSE LET v == CHOOSE x \in vs : TRUE
         IN  big_add(big_mul(big_mul(big(v), big(v)), big(Occurrences(s, v))),
                     SquaresOver(s, vs \ {v}))

SquaresOf(s) == SquaresOver(s, Values(s))

\* The scalar fields of an accumulator.
Scalars(d) ==
    <<d.count, d.width_sum, d.height_sum, d.width_squared_sum,
      d.height_squared_sum, d.min_width, d.max_width, d.min_height, d.max_height>>

IndexPermutations(n) == {p \in [1..n -> 1..n] : \A i, j \in 1..n : p[i] = p[j] => i = j}

\* The non-empty batch results of the run's batches, in batch order.
NonEmptyResults ==
    SelectSeq([k \in 1..Len(batches) |-> process_batch(batches[k])],
              LAMBDA r : r.raised = "" /\ r.results # <<>>)

(***************************************************************************)
(* Claims.                                                                 *)
(***************************************************************************)

\* C1: for a positive batch_size, when at least one discovered file can be
\* measured, the run of process_images_parallel (and of
\* process_images_memory_efficient at sample_rate 1.0) ends with a result
\* whose count is the number of discovered files that get_image_size
\* measured, whatever the batch_size and the number of workers.
C1_CountIsMeasured ==
    (/\ Terminated
     /\ args.batch_size > 0
     /\ args.sample_rate = Scale
     /\ NumMeasurable > 0)
    => (final_stats.returned = "stats" /\ final_stats.count = NumMeasurable)

\* C2: for a non-empty dataset and any positive batch_size, exact mode
\* completes and reports the width and height medians of all measured values
\* taken at once.
C2_ExactMedian ==
    (/\ Terminated
     /\ ~args.memory_efficient
     /\ args.batch_size > 0
     /\ NumMeasurable > 0)
    => (/\ raised = ""
        /\ final_stats.returned = "stats"
        /\ final_stats.width.median = DirectMedian(Widths(MeasuredSizes(all_files)))
        /\ final_stats.height.median = DirectMedian(Heights(MeasuredSizes(all_files))))

\* C3: in both modes a run of a valid configuration that measures no image
\* ends in the no-data outcome: no exception, the warning logged, None
\* returned, no output file.
C3_NoDataOutcome ==
    (/\ Terminated
     /\ directory.exists
     /\ args.batch_size > 0
     /\ folded = <<>>)
    => (/\ raised = ""
        /\ warned
        /\ final_stats.returned = "None"
        /\ ~output_written)

\* C4: in exact mode, folding the run's non-empty batch results into an empty
\* dict in any permutation leaves the same count, sums, sums of squares and
\* extrema as folding them in batch order.
C4_FoldCommutes ==
    (pc = "imap" /\ ~args.memory_efficient)
    => \A p \in IndexPermutations(Len(NonEmptyResults)) :
          Scalars(fold_results(EmptyDict,
                     [i \in 1..Len(NonEmptyResults) |-> NonEmptyResults[p[i]]], 1).stats)
          = Scalars(fold_results(EmptyDict, NonEmptyResults, 1).stats)

\* C5: in bounded mode each reservoir holds at most reservoir_size values,
\* and while the number of pairs folded is at most reservoir_size the
\* reservoirs hold exactly the folded widths and heights, in fold order.
C5_ReservoirBounded ==
    /\ Len(acc.width_samples) <= reservoir_size
    /\ Len(acc.height_samples) <= reservoir_size
    /\ (args.memory_efficient /\ acc.count <= reservoir_size)
       => (/\ Len(folded) = acc.count
           /\ acc.width_samples = Widths(folded)
           /\ acc.height_samples = Heights(folded))

\* C5 witness: more pairs than the reservoir holds were folded, the last
\* offers were made to a full reservoir.
C5_Witness ==
    /\ args.memory_efficient
    /\ acc.count > reservoir_size
    /\ Len(acc.width_samples) = reservoir_size
    /\ \E i \in 1..Len(offers) : offers[i].full /\ offers[i].r < reservoir_size

\* C6: a file that cannot be probed is left out and nothing else: no batch
\* ends with an exception, every batch result is the sizes of the batch's
\* measurable files in path order, the pairs folded are those of all batches
\* received so far (in exact mode, up to the fold that raised), and a run
\* that returns has received every batch.
C6_FailureIsLocal ==
    /\ \A k \in DOMAIN ready :
          ready[k].raised = "" /\ ready[k].results = MeasuredSizes(batches[k])
    /\ (args.memory_efficient \/ raised = "")
       => folded = MeasuredSizes(flatten(batches, consumed))
    /\ pc = "done" => consumed = Len(batches)

\* The part of C6 about the files get_image_size gives None for: the result
\* of a batch whose worker returned is the sizes of its measurable files.
C6_NoneIsLocal ==
    \A k \in DOMAIN ready :
        ready[k].raised = "" => ready[k].results = MeasuredSizes(batches[k])

\* C7: with a missing root directory or a non-positive batch_size nothing is
\* walked, dispatched or folded, and the run ends with a configuration error,
\* not with the no-data outcome.
C7_ConfigurationChecked ==
    (~directory.exists \/ args.batch_size <= 0)
    => (/\ ~walked
        /\ batches = <<>>
        /\ folded = <<>>
        /\ Terminated => (raised # "" /\ ~warned /\ ~output_written))

\* C8: at sample_rate 1.0 (positive batch_size, at least one image measured,
\* no file created during the walk) bounded mode dispatches exactly the
\* discovered files, and its count, sums,
\* sums of squares and extrema are those exact mode ends with for the same
\* directory and batch_size.
C8_FullRateMatchesExact ==
    (/\ args.memory_efficient
     /\ args.sample_rate = Scale
     /\ args.batch_size > 0
     /\ late = 0
     /\ pc = "done"
     /\ acc.count > 0)
    => (/\ flatten(batches, Len(batches)) = all_files
        /\ LET exact == process_images_parallel(directory, args.batch_size)
           IN  /\ exact.raised = ""
               /\ exact.returned = final_stats.returned
               /\ Scalars(exact.stats) = Scalars(acc))

\* C9: every draw made for an offer to a full reservoir ranges over [0, n-1],
\* n being the number of pairs offered so far, this one included.
C9_DrawRange ==
    \A i \in 1..Len(offers) :
        offers[i].full => (offers[i].high = offers[i].n /\ offers[i].r <= offers[i].n - 1)

\* C10: the accumulators change only in steps of the parent: the step that
\* receives one completed batch result and folds it whole, and, the loop
\* over and no batch left to fold, the return that drops the two lists of the
\* exact accumulator.  No step of a worker (taking a task, finishing a batch)
\* changes them.
C10_SingleWriter ==
    [][(stats' # stats \/ acc' # acc)
       => \/ /\ PoolOpen
             /\ (consumed + 1) \in DOMAIN ready
             /\ consumed' = consumed + 1
             /\ ready' = ready
             /\ taskq' = taskq
             /\ \A w \in 1..MaxWorkers : worker'[w] \in {worker[w], 0}
          \/ /\ consumed = Len(batches)
             /\ pc' = "done"
             /\ Scalars(stats') = Scalars(stats)
             /\ <<acc, consumed, ready, taskq, worker>>' = <<acc, consumed, ready, taskq, worker>>]_vars

\* C10 witness: the parent has folded the first batch while one worker is
\* probing the second and another has already finished the third.
C10_Witness ==
    /\ stats.filled
    /\ raised = ""
    /\ consumed = 1
    /\ \E w \in 1..MaxWorkers : worker[w] = 2
    /\ 3 \in DOMAIN ready

\* The pairs of the batch results the parent has received so far.
Received == MeasuredSizes(flatten(batches, consumed))

\* v is the smallest (largest) value of the non-empty sequence s.
IsMinOf(v, s) == (\E i \in 1..Len(s) : s[i] = v) /\ (\A i \in 1..Len(s) : v <= s[i])
IsMaxOf(v, s) == (\E i \in 1..Len(s) : s[i] = v) /\ (\A i \in 1..Len(s) : v >= s[i])

\* The count, sums and sums of squares of d are those of the pairs, and for
\* at least one pair its extrema are the pairs' smallest and largest values.
\* (ps, ws and hs are the pairs, their widths and their heights; s \o <<>> is
\* s, held as a sequence of values.)
SummarizesPairs(d, pairs) ==
    LET ps == pairs \o <<>>
        ws == Widths(ps) \o <<>>
        hs == Heights(ps) \o <<>>
    IN  /\ d.count = Len(ps)
        /\ d.width_sum = TotalOf(ws)
        /\ d.height_sum = TotalOf(hs)
        /\ d.width_squared_sum = SquaresOf(ws)
        /\ d.height_squared_sum = SquaresOf(hs)
        /\ d.count > 0
           => (/\ IsMinOf(d.min_width, ws)
               /\ IsMaxOf(d.max_width, ws)
               /\ IsMinOf(d.min_height, hs)
               /\ IsMaxOf(d.max_height, hs)
               /\ d.min_width <= d.max_width
               /\ d.min_height <= d.max_height)

\* C11: in every state the accumulator summarizes exactly the pairs of the
\* batch results received so far: count, sums, sums of squares, and for
\* count > 0 extrema that are observed values with min <= max.  The exact
\* dict stays empty until a pair is received; the bounded sentinels inf and 0
\* are seen only while count = 0.
C11_AccumulatorSummarizes ==
    /\ ~args.memory_efficient
       => IF stats.filled
          THEN stats.count > 0 /\ SummarizesPairs(stats, Received)
          ELSE Received = <<>>
    /\ args.memory_efficient
       => (/\ SummarizesPairs(acc, Received)
           /\ (acc.min_width = inf \/ acc.min_height = inf
               \/ acc.max_width = 0 \/ acc.max_height = 0) => acc.count = 0)

\* C11 witness: bounded mode has folded two batches, the first of one file,
\* and the running extrema differ.
C11_Witness ==
    /\ args.memory_efficient
    /\ consumed >= 2
    /\ Len(batches[1]) = 1
    /\ acc.count >= 2
    /\ acc.min_width < acc.max_width

\* The paths selected so far, in the order they were put into batches: those
\* of the batches created, then those of the batch still being filled.
Batched == flatten(batches, Len(batches)) \o (IF pc = "loop" THEN batch ELSE <<>>)

\* Every batch holds between 1 and batch_size paths, and only the last one may
\* hold fewer than batch_size.
BatchSizesOk ==
    \A k \in 1..Len(batches) :
        /\ Len(batches[k]) >= 1
        /\ Len(batches[k]) <= args.batch_size
        /\ k < Len(batches) => Len(batches[k]) = args.batch_size

\* a is b with some of b's elements left out (b holds no element twice).
IsSubsequence(a, b) == a = SelectSeq(b, LAMBDA p : \E i \in 1..Len(a) : a[i] = p)

\* The batches in order are the selected path sequence: all discovered files
\* in exact mode; in bounded mode all the files the loop has taken at
\* sample_rate 1.0, and some of them, in their order, at a lower rate.
BatchesConcatenate ==
    /\ (~args.memory_efficient /\ pc \notin {"main", "scan"}) => Batched = all_files
    /\ args.memory_efficient
       => IF args.sample_rate = Scale
          THEN Batched = SubSeq(all_files, 1, path_i)
          ELSE IsSubsequence(Batched, SubSeq(all_files, 1, path_i))

\* No batch is handed out twice or to two workers: the batches taken are the
\* first taskq, a batch a worker holds has no result yet and no other worker
\* holds it, and only batches that were taken have a result.
HandedAtMostOnce ==
    /\ taskq <= Len(batches)
    /\ \A k \in DOMAIN ready : k \in 1..taskq
    /\ \A w \in 1..MaxWorkers :
          worker[w] # 0
          => (/\ worker[w] \in 1..taskq
              /\ worker[w] \notin DOMAIN ready
              /\ \A v \in 1..MaxWorkers : worker[v] = worker[w] => v = w)

\* C12: for a positive batch_size the batches are an ordered partition of the
\* selected paths (sizes 1..batch_size, only the last one short, in order),
\* no batch is handed out twice, and when the run has ended every batch has
\* been handed to process_batch and has its result.
C12_OrderedPartition ==
    args.batch_size > 0
    => (/\ BatchSizesOk
        /\ BatchesConcatenate
        /\ HandedAtMostOnce
        /\ Terminated => DOMAIN ready = 1..Len(batches))

\* The part of C12 that does not ask that every batch be processed.
C12_PartitionOnly ==
    args.batch_size > 0 => (BatchSizesOk /\ BatchesConcatenate /\ HandedAtMostOnce)

\* C13: whenever a result is returned, in either mode, the value whose
\* square root is taken for the width std and for the height std is not
\* negative.
C13_SqrtArgumentNonNegative ==
    final_stats.returned = "stats"
    => (final_stats.width.variance.sign >= 0 /\ final_stats.height.variance.sign >= 0)

\* The running count and sums of the mode that runs.
Running == IF args.memory_efficient THEN acc ELSE stats

\* The pairs that process_batch returns for the k-th batch created.
ResultOf(k) == MeasuredSizes(batches[k])

\* A fold step takes the result of the next batch in creation order, which
\* is ready: the running count and sums grow by that batch's pairs.
FoldsNextBatch ==
    consumed' # consumed
    => /\ consumed' = consumed + 1
       /\ consumed' \in DOMAIN ready
       /\ \E pairs \in {ResultOf(consumed + 1)} :
             /\ Running'.count = Running.count + Len(pairs)
             /\ Running'.width_sum = Running.width_sum + TotalOf(Widths(pairs))
             /\ Running'.height_sum = Running.height_sum + TotalOf(Heights(pairs))

\* In bounded mode a batch is handed to a worker only when every earlier
\* batch has been folded, and it is the only batch that exists unfolded.
DispatchesAfterFold ==
    (args.memory_efficient /\ taskq' # taskq)
    => /\ taskq' = consumed + 1
       /\ Len(batches) = consumed + 1
       /\ \A w \in 1..MaxWorkers : worker[w] = 0

\* C14: in both modes the parent folds the batch results in the order the
\* batches were created, whatever order the workers finish in: a fold takes
\* the result of batch consumed + 1 and no other, so in exact mode a later
\* result that is ready stays unfolded until then; in bounded mode batch
\* k + 1 is handed to a worker only after batch k has been folded, so at
\* most one batch is in flight.
C14_FoldedInCreationOrder == [][FoldsNextBatch /\ DispatchesAfterFold]_vars

\* C14 witness: exact mode has folded the first batch while the third
\* batch's result, of another width than the second's, is ready and held
\* back, the second batch's result being not yet there.
C14_Witness ==
    /\ ~args.memory_efficient
    /\ consumed = 1
    /\ stats.count = 1
    /\ 2 \notin DOMAIN ready
    /\ 3 \in DOMAIN ready
    /\ ready[3].results # <<>>
    /\ ResultOf(2) # ready[3].results

====
